---- MODULE Spec2Model ----
(***************************************************************************)
(* A model of mould (src/main.go): the form-definition compiler.           *)
(*                                                                         *)
(* Go strings are modelled as sequences of one-character strings, so that  *)
(* trimming, splitting, case mapping and the regular expression of         *)
(* parseFormat are computed character by character, as the code does.      *)
(* The characters are ASCII and the two other spaces of Latin-1; the input *)
(* text is given as the sequence of lines bufio.Scanner yields.  A         *)
(* run-time panic of the Go program (a slice bound or an index out of      *)
(* range) is the control state "panic".                                    *)
(***************************************************************************)
EXTENDS Integers, Sequences, FiniteSets

VARIABLES format, pc, scanned, genList, values, idx, htmlList, contentBits,
          answer, resParse, theme, setPassword, setUser, pageTitle, styleData,
          kt

vars == <<format, pc, scanned, genList, values, idx, htmlList, contentBits,
          answer, resParse, theme, setPassword, setUser, pageTitle, styleData,
          kt>>

(***************************************************************************)
(* Characters and the library functions of package strings the code calls. *)
(***************************************************************************)
LowerLetters == <<"a","b","c","d","e","f","g","h","i","j","k","l","m",
                  "n","o","p","q","r","s","t","u","v","w","x","y","z">>

UpperLetters == <<"A","B","C","D","E","F","G","H","I","J","K","L","M",
                  "N","O","P","Q","R","S","T","U","V","W","X","Y","Z">>

Digits == {"0","1","2","3","4","5","6","7","8","9"}

LowerSet == {LowerLetters[n] : n \in DOMAIN LowerLetters}

UpperSet == {UpperLetters[n] : n \in DOMAIN UpperLetters}

\* the vertical tab (0x0B), the next-line character (U+0085) and the no-break
\* space (U+00A0), each written as the character itself
VT == ""

NEL == ""

NBSP == " "

\* unicode.IsSpace, which strings.TrimSpace trims by, on Latin-1
IsSpace(c) == c \in {" ", "\t", "\n", VT, "\f", "\r", NEL, NBSP}

\* the regexp class \s, whose complement is \S: the vertical tab and the two
\* non-ASCII spaces are not in it
IsRegexpSpace(c) == c \in {" ", "\t", "\n", "\f", "\r"}

\* the regexp class \w
IsWordChar(c) == c \in LowerSet \cup UpperSet \cup Digits \cup {"_"}

\* strings.isSeparator on ASCII: everything but letters, digits and underscore
isSeparator(c) == ~IsWordChar(c)

ToLowerChar(c) ==
    IF c \in UpperSet
    THEN LowerLetters[CHOOSE n \in DOMAIN UpperLetters : UpperLetters[n] = c]
    ELSE c

ToUpperChar(c) ==
    IF c \in LowerSet
    THEN UpperLetters[CHOOSE n \in DOMAIN LowerLetters : LowerLetters[n] = c]
    ELSE c

\* strings.ToLower
ToLower(s) == [n \in 1..Len(s) |-> ToLowerChar(s[n])]

\* strings.Title: a letter is upper-cased when the character before it is a
\* separator (the character before the first one counts as a space)
Title(s) ==
    [n \in 1..Len(s) |->
        IF n = 1 \/ isSeparator(s[n - 1]) THEN ToUpperChar(s[n]) ELSE s[n]]

\* strings.ReplaceAll(s, old, new) for a one-character old and new
ReplaceAllChar(s, old, new) ==
    [n \in 1..Len(s) |-> IF s[n] = old THEN new ELSE s[n]]

RECURSIVE RemoveAllChar(_, _)
\* strings.ReplaceAll(s, old, "") for a one-character old
RemoveAllChar(s, old) ==
    IF s = <<>> THEN <<>>
    ELSE IF Head(s) = old THEN RemoveAllChar(Tail(s), old)
    ELSE <<Head(s)>> \o RemoveAllChar(Tail(s), old)

\* strings.Index(s, c) for a one-character c, as a 0-based index, -1 if absent
Index(s, c) ==
    IF \E n \in 1..Len(s) : s[n] = c
    THEN (CHOOSE n \in 1..Len(s) : s[n] = c /\ \A m \in 1..(n - 1) : s[m] # c) - 1
    ELSE -1

\* strings.TrimSpace
TrimSpace(s) ==
    LET keep == {n \in 1..Len(s) : ~IsSpace(s[n])}
    IN  IF keep = {} THEN <<>>
        ELSE LET lo == CHOOSE n \in keep : \A m \in keep : n <= m
                 hi == CHOOSE n \in keep : \A m \in keep : n >= m
             IN  SubSeq(s, lo, hi)

RECURSIVE Split(_, _)
\* strings.Split(s, sep) for a one-character sep: always at least one piece
Split(s, sep) ==
    LET at == Index(s, sep)
    IN  IF at = -1 THEN <<s>>
        ELSE <<SubSeq(s, 1, at)>> \o Split(SubSeq(s, at + 2, Len(s)), sep)

(***************************************************************************)
(* parseFormat: the regular expression of line 96, two alternatives:       *)
(*   1. "form-" and one or more word characters             (group 1)      *)
(*   2. an optional "!" (group 2), any run of non-space characters         *)
(*      (group 3), "[" anything "]" (group 4), and an optional "#" with    *)
(*      one or more non-space characters (group 5)                         *)
(* matched unanchored with Go's leftmost-first rule.  A match is the       *)
(* sequence of the six submatches, no match is the empty sequence (nil).   *)
(***************************************************************************)
FormPrefix == <<"f","o","r","m","-">>

\* the end of the longest run of characters satisfying the class, from `from`
WordRunEnd(s, from) ==
    CHOOSE e \in from..Len(s) :
        /\ \A n \in from..e : IsWordChar(s[n])
        /\ (e = Len(s) \/ ~IsWordChar(s[e + 1]))

NonSpaceRunEnd(s, from) ==
    CHOOSE e \in from..Len(s) :
        /\ \A n \in from..e : ~IsRegexpSpace(s[n])
        /\ (e = Len(s) \/ IsRegexpSpace(s[e + 1]))

\* first alternative at position p: form-\w+
MetaMatchesAt(s, p) ==
    /\ p + 5 <= Len(s)
    /\ SubSeq(s, p, p + 4) = FormPrefix
    /\ IsWordChar(s[p + 5])

\* second alternative at position p: the positions where group 4 may open,
\* after an optional "!" and a run of non-space characters
BracketStarts(s, p) ==
    LET q == IF s[p] = "!" THEN p + 1 ELSE p
    IN  {b \in q..Len(s) :
            /\ s[b] = "["
            /\ \A n \in q..(b - 1) : ~IsRegexpSpace(s[n])
            /\ \E n \in (b + 1)..Len(s) : s[n] = "]"}

ElementMatchesAt(s, p) == BracketStarts(s, p) # {}

MaxOf(S) == CHOOSE n \in S : \A m \in S : n >= m

MinOf(S) == CHOOSE n \in S : \A m \in S : n <= m

MetaSubmatch(s, p) ==
    LET e == WordRunEnd(s, p + 5)
    IN  <<SubSeq(s, p, e), SubSeq(s, p, e), <<>>, <<>>, <<>>, <<>> >>

ElementSubmatch(s, p) ==
    LET bang == s[p] = "!"
        q    == IF bang THEN p + 1 ELSE p
        b    == MaxOf(BracketStarts(s, p))
        last == MaxOf({n \in 1..Len(s) : s[n] = "]"})
        hasKey == /\ last + 2 <= Len(s)
                  /\ s[last + 1] = "#"
                  /\ ~IsRegexpSpace(s[last + 2])
        e    == IF hasKey THEN NonSpaceRunEnd(s, last + 2) ELSE last
    IN  << SubSeq(s, p, e),
           <<>>,
           IF bang THEN <<"!">> ELSE <<>>,
           SubSeq(s, q, b - 1),
           SubSeq(s, b, last),
           IF hasKey THEN SubSeq(s, last + 1, e) ELSE <<>> >>

\* pattern.FindStringSubmatch(left)
FindStringSubmatch(s) ==
    LET starts == {p \in 1..Len(s) : MetaMatchesAt(s, p) \/ ElementMatchesAt(s, p)}
    IN  IF starts = {} THEN <<>>
        ELSE LET p == MinOf(starts)
             IN  IF MetaMatchesAt(s, p) THEN MetaSubmatch(s, p)
                 ELSE ElementSubmatch(s, p)

\* the zero value of genValue
genValue ==
    [element |-> <<>>, title |-> <<>>, value |-> <<>>, key |-> <<>>,
     required |-> FALSE]

\* the body of parseFormat's loop for one line: the directive it appends, or
\* a panic (line[0:-1] when the line has no "=", matches[1] when nothing matched)
parseLine(line) ==
    LET splitterIndex == Index(line, "=")
    IN  IF splitterIndex = -1 THEN [panic |-> TRUE, v |-> genValue]
        ELSE
        LET left    == TrimSpace(SubSeq(line, 1, splitterIndex))
            value   == TrimSpace(SubSeq(line, splitterIndex + 2, Len(line)))
            matches == FindStringSubmatch(left)
        IN  IF Len(matches) = 0 THEN [panic |-> TRUE, v |-> genValue]
            ELSE [panic |-> FALSE,
                  v |-> [element  |-> IF matches[2] # <<>> THEN TrimSpace(matches[2])
                                      ELSE IF matches[4] # <<>> THEN TrimSpace(matches[4])
                                      ELSE <<>>,
                         title    |-> IF matches[5] # <<>>
                                      THEN SubSeq(matches[5], 2, Len(matches[5]) - 1)
                                      ELSE <<>>,
                         value    |-> value,
                         key      |-> IF matches[6] # <<>>
                                      THEN TrimSpace(SubSeq(matches[6], 2, Len(matches[6])))
                                      ELSE <<>>,
                         required |-> matches[3] = <<"!">>]]

RECURSIVE parseFormat(_)
\* parseFormat on a whole text: the directives, or a panic at the first line
\* that cannot be split or matched
parseFormat(text) ==
    IF text = <<>> THEN [panic |-> FALSE, list |-> <<>>]
    ELSE LET first == parseLine(Head(text))
         IN  IF first.panic THEN [panic |-> TRUE, list |-> <<>>]
             ELSE LET rest == parseFormat(Tail(text))
                  IN  [panic |-> rest.panic,
                       list  |-> IF rest.panic THEN <<>> ELSE <<first.v>> \o rest.list]

\* formatKeyAndTitle with the hyphens of the key left in place
formatKeyAndTitle_KeepHyphens(v) ==
    IF Len(v.key) > 0
    THEN <<v.key, RemoveAllChar(Title(v.key), " ")>>
    ELSE <<ToLower(v.title), RemoveAllChar(Title(v.title), " ")>>

\* formatKeyAndTitle: the resolved key and the resolved title of a directive
formatKeyAndTitle(v) ==
    IF Len(v.key) > 0
    THEN <<v.key, RemoveAllChar(Title(ReplaceAllChar(v.key, "-", " ")), " ")>>
    ELSE <<ToLower(v.title), RemoveAllChar(Title(v.title), " ")>>

(***************************************************************************)
(* The string literals of main.                                            *)
(***************************************************************************)
S_formTitle == <<"f","o","r","m","-","t","i","t","l","e">>

S_formDesc == <<"f","o","r","m","-","d","e","s","c">>

S_formImage == <<"f","o","r","m","-","i","m","a","g","e">>

S_formPassword == <<"f","o","r","m","-","p","a","s","s","w","o","r","d">>

S_formUser == <<"f","o","r","m","-","u","s","e","r">>

S_formBg == <<"f","o","r","m","-","b","g">>

S_formTitlecolor == <<"f","o","r","m","-","t","i","t","l","e","c","o","l","o","r">>

S_formFg == <<"f","o","r","m","-","f","g">>

S_formParagraph == <<"f","o","r","m","-","p","a","r","a","g","r","a","p","h">>

S_textarea == <<"t","e","x","t","a","r","e","a">>

S_input == <<"i","n","p","u","t">>

S_hidden == <<"h","i","d","d","e","n">>

S_email == <<"e","m","a","i","l">>

S_number == <<"n","u","m","b","e","r">>

S_range == <<"r","a","n","g","e">>

S_radio == <<"r","a","d","i","o">>

S_required == <<"r","e","q","u","i","r","e","d">>

S_mouldy == <<"m","o","u","l","d","y">>

S_option == <<"-","o","p","t","i","o","n","-">>

(***************************************************************************)
(* An HTML fragment of htmlList is the format string of the fmt.Sprintf    *)
(* call that builds it together with the arguments substituted into it; a  *)
(* literal fragment has no arguments.                                      *)
(***************************************************************************)
Sprintf(tmpl, args) == [tmpl |-> tmpl, args |-> args]

Fragment(text) == [tmpl |-> text, args |-> <<>>]

T_h1 == "<h1>%s</h1>"

T_p == "<p>%s</p>"

T_img == "<img src=\"%s\">"

T_form == "<form action=\"/\" method=\"post\">"

T_div == "<div>"

T_divEnd == "</div>"

T_label == "<label for=\"%s\">%s</label>"

T_textarea == "<textarea %s placeholder=\"%s\" name=\"%s\"></textarea>"

T_text == "<input type=\"text\" %s placeholder=\"%s\" name=\"%s\"/>"

T_hidden == "<input type=\"hidden\" %s value=\"%s\" name=\"%s\"/>"

T_email == "<input type=\"email\" %s placeholder=\"email@provider.tld\" pattern=\"%s\", name=\"%s\"/>"

T_number == "<input type=\"number\" %s %s name=\"%s\"/>"

T_range == "<input type=\"range\" %s %s name=\"%s\"/>"

T_span == "<span>%s</span>"

T_spanOpen == "<span>"

T_spanEnd == "</span>"

T_radio == "<input type=\"radio\" id=\"%s\" value=\"%s\" name=\"%s\"/>"

T_submit == "<div><button type=\"submit\">Submit</button></div>"

T_formEnd == "</form>"

\* jsonTag: the struct tag of a FormAnswer field
jsonTag(value) == [json |-> value]

\* Id(title).String().Tag(jsonTag(key)): a field of FormAnswer
AnswerField(title, key) == [name |-> title, type |-> "string", tag |-> jsonTag(key)]

\* answer.<title> = req.PostFormValue(<key>): a statement of ParsePost
ParseStmt(title, key) == [field |-> title, call |-> "PostFormValue", arg |-> key]

\* what one iteration of the second loop appends
FieldResult(html, title, key) ==
    [panic |-> FALSE, html |-> html,
     answer |-> <<AnswerField(title, key)>>, resParse |-> <<ParseStmt(title, key)>>]

\* the local `required` of the second loop
requiredAttr(input) == IF input.required THEN S_required ELSE <<>>

textareaCase(input) ==
    LET kt2 == formatKeyAndTitle(input)
        key == kt2[1]
        title == kt2[2]
    IN  FieldResult(<< Fragment(T_div),
                       Sprintf(T_label, <<key, title>>),
                       Sprintf(T_textarea, <<requiredAttr(input), input.value, key>>),
                       Fragment(T_divEnd) >>, title, key)

\* inputCase naming the input element after the raw title, as its label does
inputCase_TitleAsName(input) ==
    LET kt2 == formatKeyAndTitle(input)
        key == kt2[1]
        title == kt2[2]
    IN  FieldResult(<< Fragment(T_div),
                       Sprintf(T_label, <<key, input.title>>),
                       Sprintf(T_text, <<requiredAttr(input), input.value, input.title>>),
                       Fragment(T_divEnd) >>, title, key)

inputCase(input) ==
    LET kt2 == formatKeyAndTitle(input)
        key == kt2[1]
        title == kt2[2]
    IN  FieldResult(<< Fragment(T_div),
                       Sprintf(T_label, <<key, input.title>>),
                       Sprintf(T_text, <<requiredAttr(input), input.value, key>>),
                       Fragment(T_divEnd) >>, title, key)

hiddenCase(input) ==
    LET kt2 == formatKeyAndTitle(input)
        key == kt2[1]
        title == kt2[2]
    IN  FieldResult(<< Fragment(T_div),
                       Sprintf(T_hidden, <<requiredAttr(input), input.value, key>>),
                       Fragment(T_divEnd) >>, title, key)

paragraphCase(input) ==
    [panic |-> FALSE, html |-> <<Sprintf(T_p, <<input.value>>)>>,
     answer |-> <<>>, resParse |-> <<>>]

emailCase(input) ==
    LET kt2 == formatKeyAndTitle(input)
        key == kt2[1]
        title == kt2[2]
    IN  FieldResult(<< Fragment(T_div),
                       Sprintf(T_label, <<key, input.title>>),
                       Sprintf(T_email, <<requiredAttr(input), input.value, key>>),
                       Fragment(T_divEnd) >>, title, key)

RECURSIVE optionsString(_)
\* the loop over optionsList of the number and range cases: the attribute
\* text, or a panic at parts[1] when an item holds no "="
optionsString(optionsList) ==
    IF optionsList = <<>> THEN [panic |-> FALSE, options |-> <<>>]
    ELSE LET optionPair == TrimSpace(Head(optionsList))
             parts == Split(optionPair, "=")
         IN  IF Len(parts) < 2 THEN [panic |-> TRUE, options |-> <<>>]
             ELSE LET rest == optionsString(Tail(optionsList))
                  IN  [panic |-> rest.panic,
                       options |-> parts[1] \o <<"=", "\"">> \o parts[2]
                                   \o <<"\"", " ">> \o rest.options]

\* the number and range cases differ in the input element's type only
numericCase(input, tmpl) ==
    LET opts == optionsString(Split(input.value, ","))
        kt2 == formatKeyAndTitle(input)
        key == kt2[1]
        title == kt2[2]
    IN  IF opts.panic
        THEN [panic |-> TRUE, html |-> <<Fragment(T_div)>>,
              answer |-> <<>>, resParse |-> <<>>]
        ELSE FieldResult(<< Fragment(T_div),
                            Sprintf(T_label, <<key, title>>),
                            Sprintf(tmpl, <<requiredAttr(input), opts.options, key>>),
                            Fragment(T_divEnd) >>, title, key)

numberCase(input) == numericCase(input, T_number)

rangeCase(input) == numericCase(input, T_range)

RECURSIVE radioOptions(_, _)
\* the loop over the options of a radio directive
radioOptions(options, key) ==
    IF options = <<>> THEN <<>>
    ELSE LET option == TrimSpace(Head(options))
             radioValue == ToLower(option)
             radioId == key \o S_option \o radioValue
         IN  << Fragment(T_spanOpen),
                Sprintf(T_radio, <<radioId, radioValue, key>>),
                Sprintf(T_label, <<radioId, option>>),
                Fragment(T_spanEnd) >> \o radioOptions(Tail(options), key)

radioCase(input) ==
    LET kt2 == formatKeyAndTitle(input)
        key == kt2[1]
        title == kt2[2]
    IN  FieldResult(<< Fragment(T_div), Sprintf(T_span, <<input.title>>) >>
                    \o radioOptions(Split(input.value, ","), key)
                    \o << Fragment(T_divEnd) >>, title, key)

\* the switch of the second loop
Dispatch(input) ==
    CASE input.element = S_textarea -> textareaCase(input)
      [] input.element = S_input -> inputCase(input)
      [] input.element = S_hidden -> hiddenCase(input)
      [] input.element = S_formParagraph -> paragraphCase(input)
      [] input.element = S_email -> emailCase(input)
      [] input.element = S_number -> numberCase(input)
      [] input.element = S_range -> rangeCase(input)
      [] input.element = S_radio -> radioCase(input)
      [] OTHER -> [panic |-> FALSE, html |-> <<>>, answer |-> <<>>, resParse |-> <<>>]

\* MetaContent with a FormContent field for hidden inputs as well
MetaContent_Hidden(input) ==
    CASE input.element = S_formTitle -> <<"Title">>
      [] input.element = S_formDesc -> <<"Description">>
      [] input.element = S_formImage -> <<"Image">>
      [] input.element = S_formPassword -> <<"Password">>
      [] input.element = S_formUser -> <<"User">>
      [] input.element = S_hidden -> <<"Hidden">>
      [] OTHER -> <<>>

\* the switch of the first loop: what a metadata directive contributes
MetaContent(input) ==
    CASE input.element = S_formTitle -> <<"Title">>
      [] input.element = S_formDesc -> <<"Description">>
      [] input.element = S_formImage -> <<"Image">>
      [] input.element = S_formPassword -> <<"Password">>
      [] input.element = S_formUser -> <<"User">>
      [] OTHER -> <<>>

MetaHtml(input) ==
    CASE input.element = S_formTitle -> <<Sprintf(T_h1, <<input.value>>)>>
      [] input.element = S_formDesc -> <<Sprintf(T_p, <<input.value>>)>>
      [] input.element = S_formImage -> <<Sprintf(T_img, <<input.value>>)>>
      [] OTHER -> <<>>

MetaTheme(input, th) ==
    CASE input.element = S_formBg -> [th EXCEPT !.background = input.value]
      [] input.element = S_formTitlecolor -> [th EXCEPT !.title = input.value]
      [] input.element = S_formFg -> [th EXCEPT !.body = input.value]
      [] OTHER -> th

\* the zero values of Theme and StyleData
Theme == [background |-> <<>>, title |-> <<>>, body |-> <<>>]

StyleData == [Background |-> <<>>, TitleColor |-> <<>>, Body |-> <<>>]

\* lines 360-369: a colour is copied into the style data when it is set
buildStyleData(th) ==
    [Background |-> IF th.background # <<>> THEN th.background ELSE StyleData.Background,
     Body       |-> IF th.body # <<>> THEN th.body ELSE StyleData.Body,
     TitleColor |-> IF th.title # <<>> THEN th.title ELSE StyleData.TitleColor]

(***************************************************************************)
(* The inputs: texts of a few lines.  CoreLines are combined into texts of *)
(* up to MaxLines lines; WideLines, every element kind with and without    *)
(* "!" and "#key" and every metadata tag, into texts of up to MaxWideLines *)
(* lines.                                                                  *)
(***************************************************************************)
MaxLines == 3

MaxWideLines == 1

FieldLine(req, elem, title, key, value) ==
    (IF req THEN <<"!">> ELSE <<>>) \o elem \o <<"[">> \o title \o <<"]">>
    \o (IF key = <<>> THEN <<>> ELSE <<"#">> \o key)
    \o <<" ", "=", " ">> \o value

MetaLine(tag, value) == tag \o <<" ", "=", " ">> \o value

V_name == <<"N","a","m","e">>

V_myTag == <<"M","y"," ","t","a","g">>

V_size == <<"S","i","z","e">>

V_qty == <<"Q","t","y">>

V_key == <<"k","-","v">>

V_hi == <<"h","i">>

V_minMax == <<"m","i","n","=","1",","," ","m","a","x","=","5">>

V_five == <<"5">>

V_abc == <<"a","=","b","=","c">>

V_sm == <<"S",","," ","M">>

V_t == <<"M","y"," ","T">>

V_fff == <<"#","f","f","f">>

V_red == <<"r","e","d">>

V_blue == <<"b","l","u","e">>

V_vtHi == <<VT, "h", "i", NBSP>>

V_vtKey == <<"k", VT, "v">>

V_oops == <<"o","o","p","s">>

V_oopsEq == <<"o","o","p","s"," ","=","1">>

FieldKinds == {S_input, S_textarea, S_hidden, S_email, S_number, S_range, S_radio}

MetaTags == {S_formTitle, S_formDesc, S_formImage, S_formPassword, S_formUser,
             S_formBg, S_formTitlecolor, S_formFg}

CoreLines ==
    { MetaLine(S_formTitle, V_t),
      MetaLine(S_formBg, V_fff),
      MetaLine(S_formFg, V_red),
      MetaLine(S_formTitlecolor, V_blue),
      MetaLine(S_formParagraph, V_hi),
      FieldLine(FALSE, S_input, V_name, <<>>, V_hi),
      FieldLine(TRUE, S_textarea, V_myTag, V_key, V_hi),
      FieldLine(TRUE, S_radio, V_size, <<>>, V_sm),
      FieldLine(FALSE, S_number, V_qty, <<>>, V_minMax),
      FieldLine(FALSE, S_number, V_qty, <<>>, V_five),
      <<>>,
      V_oopsEq }

ValuesOf(elem) ==
    IF elem \in {S_number, S_range} THEN {V_minMax, V_five, V_abc, <<>>}
    ELSE IF elem = S_radio THEN {V_sm}
    ELSE {V_hi}

WideLines ==
    { FieldLine(req, elem, V_myTag, key, value) :
        <<req, elem, key, value>> \in
            { q \in BOOLEAN \X FieldKinds \X {<<>>, V_key} \X {V_hi, V_sm, V_minMax, V_five, V_abc, <<>>} :
                q[4] \in ValuesOf(q[2]) } }
    \cup { FieldLine(FALSE, S_input, V_myTag, <<>>, V_vtHi),
           FieldLine(TRUE, S_hidden, V_myTag, V_vtKey, V_hi),
           S_radio \o <<"[">> \o V_size \o <<"]", VT, "=">> \o V_sm }
    \cup { MetaLine(tag, V_t) : tag \in MetaTags \cup {S_formParagraph} }
    \cup { <<>>, V_oops, V_oopsEq }

SeqsUpTo(S, n) == UNION {[1..m -> S] : m \in 0..n}

Formats == SeqsUpTo(CoreLines, MaxLines) \cup SeqsUpTo(WideLines, MaxWideLines)

(***************************************************************************)
(* main.                                                                   *)
(***************************************************************************)
NoCall == [called |-> FALSE, v |-> genValue, key |-> <<>>, title |-> <<>>]

Init ==
    /\ format \in Formats
    /\ pc = "parseFormat"
    /\ scanned = 0
    /\ genList = <<>>
    /\ values = <<>>
    /\ idx = 0
    /\ htmlList = <<>>
    /\ contentBits = <<>>
    /\ answer = <<>>
    /\ resParse = <<>>
    /\ theme = Theme
    /\ setPassword = <<>>
    /\ setUser = S_mouldy
    /\ pageTitle = <<>>
    /\ styleData = StyleData
    /\ kt = NoCall

\* parseFormat, one scanner.Scan() and loop body
ScanLine ==
    /\ pc = "parseFormat"
    /\ scanned < Len(format)
    /\ LET r == parseLine(format[scanned + 1])
       IN  /\ pc' = IF r.panic THEN "panic" ELSE pc
           /\ genList' = IF r.panic THEN genList ELSE Append(genList, r.v)
    /\ scanned' = scanned + 1
    /\ UNCHANGED <<format, values, idx, htmlList, contentBits, answer, resParse,
                   theme, setPassword, setUser, pageTitle, styleData, kt>>

\* parseFormat returns genList (line 125) into values (line 188)
ParseReturn ==
    /\ pc = "parseFormat"
    /\ scanned = Len(format)
    /\ values' = genList
    /\ pc' = "pass1"
    /\ idx' = 1
    /\ UNCHANGED <<format, scanned, genList, htmlList, contentBits, answer,
                   resParse, theme, setPassword, setUser, pageTitle, styleData, kt>>

\* one iteration of the first loop (lines 194-221)
Pass1Step ==
    /\ pc = "pass1"
    /\ idx <= Len(values)
    /\ LET input == values[idx]
       IN  /\ contentBits' = contentBits \o MetaContent(input)
           /\ htmlList' = htmlList \o MetaHtml(input)
           /\ pageTitle' = IF input.element = S_formTitle THEN input.value ELSE pageTitle
           /\ setPassword' = IF input.element = S_formPassword THEN input.value
                             ELSE setPassword
           /\ setUser' = IF input.element = S_formUser THEN input.value ELSE setUser
           /\ theme' = MetaTheme(input, theme)
    /\ idx' = idx + 1
    /\ UNCHANGED <<format, pc, scanned, genList, values, answer, resParse,
                   styleData, kt>>

\* OpenForm putting the tag in front of the fragments of the first loop
OpenForm_AtFront ==
    /\ pc = "pass1"
    /\ idx > Len(values)
    /\ htmlList' = <<Fragment(T_form)>> \o htmlList
    /\ pc' = "pass2"
    /\ idx' = 1
    /\ UNCHANGED <<format, scanned, genList, values, contentBits, answer, resParse,
                   theme, setPassword, setUser, pageTitle, styleData, kt>>

\* line 223: the opening form tag, appended between the two loops
OpenForm ==
    /\ pc = "pass1"
    /\ idx > Len(values)
    /\ htmlList' = Append(htmlList, Fragment(T_form))
    /\ pc' = "pass2"
    /\ idx' = 1
    /\ UNCHANGED <<format, scanned, genList, values, contentBits, answer, resParse,
                   theme, setPassword, setUser, pageTitle, styleData, kt>>

\* Pass2Step putting each new FormAnswer field in front of the earlier ones
Pass2Step_Prepend ==
    /\ pc = "pass2"
    /\ idx <= Len(values)
    /\ LET r == Dispatch(values[idx])
       IN  /\ htmlList' = htmlList \o r.html
           /\ answer' = r.answer \o answer
           /\ resParse' = resParse \o r.resParse
           /\ pc' = IF r.panic THEN "panic" ELSE pc
    /\ idx' = idx + 1
    /\ UNCHANGED <<format, scanned, genList, values, contentBits, theme,
                   setPassword, setUser, pageTitle, styleData, kt>>

\* one iteration of the second loop (lines 224-320)
Pass2Step ==
    /\ pc = "pass2"
    /\ idx <= Len(values)
    /\ LET r == Dispatch(values[idx])
       IN  /\ htmlList' = htmlList \o r.html
           /\ answer' = answer \o r.answer
           /\ resParse' = resParse \o r.resParse
           /\ pc' = IF r.panic THEN "panic" ELSE pc
    /\ idx' = idx + 1
    /\ UNCHANGED <<format, scanned, genList, values, contentBits, theme,
                   setPassword, setUser, pageTitle, styleData, kt>>

\* lines 322-323: the submit control and the closing tag
CloseForm ==
    /\ pc = "pass2"
    /\ idx > Len(values)
    /\ htmlList' = htmlList \o <<Fragment(T_submit), Fragment(T_formEnd)>>
    /\ pc' = "style"
    /\ UNCHANGED <<format, scanned, genList, values, idx, contentBits, answer,
                   resParse, theme, setPassword, setUser, pageTitle, styleData, kt>>

\* lines 360-369: the data the stylesheet template is executed with
BuildStyle ==
    /\ pc = "style"
    /\ styleData' = buildStyleData(theme)
    /\ pc' = "done"
    /\ UNCHANGED <<format, scanned, genList, values, idx, htmlList, contentBits,
                   answer, resParse, theme, setPassword, setUser, pageTitle, kt>>

Next ==
    \/ ScanLine
    \/ ParseReturn
    \/ Pass1Step
    \/ OpenForm
    \/ Pass2Step
    \/ CloseForm
    \/ BuildStyle

Spec == Init /\ [][Next]_vars

(***************************************************************************)
(* formatKeyAndTitle as a function of its own: called once on a directive  *)
(* whose title and key are any strings over KTChars up to a length: a      *)
(* lower-case and an upper-case letter, the space, the hyphen and one      *)
(* other separator.  The keys hold no space: group 5 of the pattern stops  *)
(* at one.                                                                 *)
(***************************************************************************)
MaxTitleLen == 3

MaxKeyLen == 3

KTChars == {"a", "B", " ", "-", "."}

KTTitles == SeqsUpTo(KTChars, MaxTitleLen)

KTKeys == SeqsUpTo(KTChars \ {" "}, MaxKeyLen)

InitKT ==
    /\ format = <<>>
    /\ pc = "call"
    /\ scanned = 0
    /\ genList = <<>>
    /\ values = <<>>
    /\ idx = 0
    /\ htmlList = <<>>
    /\ contentBits = <<>>
    /\ answer = <<>>
    /\ resParse = <<>>
    /\ theme = Theme
    /\ setPassword = <<>>
    /\ setUser = S_mouldy
    /\ pageTitle = <<>>
    /\ styleData = StyleData
    /\ \E t \in KTTitles, k \in KTKeys :
          kt = [NoCall EXCEPT !.v = [genValue EXCEPT !.title = t, !.key = k]]

CallFormatKeyAndTitle ==
    /\ pc = "call"
    /\ ~kt.called
    /\ LET r == formatKeyAndTitle(kt.v)
       IN  kt' = [kt EXCEPT !.called = TRUE, !.key = r[1], !.title = r[2]]
    /\ pc' = "returned"
    /\ UNCHANGED <<format, scanned, genList, values, idx, htmlList, contentBits,
                   answer, resParse, theme, setPassword, setUser, pageTitle, styleData>>

NextKT == CallFormatKeyAndTitle

SpecKT == InitKT /\ [][NextKT]_vars

(***************************************************************************)
(* Vocabulary of the properties.                                           *)
(***************************************************************************)
IsFieldKind(v) == v.element \in FieldKinds

IsMetadata(v) == v.element \in MetaTags

\* the directives the second loop has gone through
Processed == IF pc = "pass2" THEN SubSeq(values, 1, idx - 1) ELSE values

AfterPass2 == pc \in {"style", "done"}

\* the parse of a failed run stopped in parseFormat (idx is set on its return)
ParsePanicked == pc = "panic" /\ idx = 0

\* the field fragments of a body: each runs from a <div> to its </div>
DivStarts(html) == {p \in 1..Len(html) : html[p].tmpl = T_div}

BlockEnd(html, p) ==
    LET ends == {e \in (p + 1)..Len(html) : html[e].tmpl = T_divEnd}
    IN  IF ends = {} THEN Len(html) ELSE MinOf(ends)

NthStart(html, k) ==
    CHOOSE p \in DivStarts(html) : Cardinality({q \in DivStarts(html) : q <= p}) = k

FieldBlocks(html) ==
    [k \in 1..Cardinality(DivStarts(html)) |->
        SubSeq(html, NthStart(html, k), BlockEnd(html, NthStart(html, k)))]

InputTmpls == {T_textarea, T_text, T_hidden, T_email, T_number, T_range, T_radio}

IsInputFragment(f) == f.tmpl \in InputTmpls

InputsOf(block) == SelectSeq(block, IsInputFragment)

\* the name attribute is the third argument of every input element's format
NameAttr(f) == f.args[3]

KindTmpl(elem) ==
    CASE elem = S_textarea -> T_textarea
      [] elem = S_input -> T_text
      [] elem = S_hidden -> T_hidden
      [] elem = S_email -> T_email
      [] elem = S_number -> T_number
      [] elem = S_range -> T_range
      [] elem = S_radio -> T_radio

\* the required marker: the first argument of the formats that have a slot for it
HasRequiredMarker(f) == f.tmpl # T_radio /\ f.args[1] = S_required

Positions(html, tmpl) == {p \in 1..Len(html) : html[p].tmpl = tmpl}

(***************************************************************************)
(* C1                                                                      *)
(***************************************************************************)
\* C1: order preservation.  At every point of the second pass and after it,
\* the field directives gone through so far, d1..dn in line order, are matched
\* one to one and in order by the FormAnswer fields, by the ParsePost
\* statements and by the field fragments of htmlList: the i-th of each carries
\* the key and title resolved from di, and the i-th fragment is of di's kind
\* and carries di's value where the kind shows it.
C1_OrderPreserved ==
    pc \in {"pass2", "style", "done"} =>
        LET d == SelectSeq(Processed, IsFieldKind)
            blocks == FieldBlocks(htmlList)
        IN  /\ Len(answer) = Len(d)
            /\ Len(resParse) = Len(d)
            /\ Len(blocks) = Len(d)
            /\ \A i \in 1..Len(d) :
                  LET k == formatKeyAndTitle(d[i])
                      ins == InputsOf(blocks[i])
                  IN  /\ answer[i].name = k[2]
                      /\ answer[i].tag = jsonTag(k[1])
                      /\ resParse[i].field = k[2]
                      /\ resParse[i].arg = k[1]
                      /\ Len(ins) >= 1
                      /\ \A j \in 1..Len(ins) :
                            /\ ins[j].tmpl = KindTmpl(d[i].element)
                            /\ NameAttr(ins[j]) = k[1]
                            /\ d[i].element \in {S_input, S_textarea, S_hidden, S_email}
                                  => ins[j].args[2] = d[i].value

\* two field directives of different kinds with a metadata line between them
C1_Witness ==
    /\ pc = "done"
    /\ Len(values) = 3
    /\ IsFieldKind(values[1]) /\ IsMetadata(values[2]) /\ IsFieldKind(values[3])
    /\ values[1].element # values[3].element
    /\ Len(answer) = 2

(***************************************************************************)
(* C2                                                                      *)
(***************************************************************************)
\* C2: identifier consistency.  For the i-th field directive gone through,
\* the name attribute of every input element of its fragment, the json tag of
\* its FormAnswer field and the argument of PostFormValue in its ParsePost
\* statement are one string, and the statement assigns the field the struct
\* declares.
C2_IdentifiersAgree ==
    pc \in {"pass2", "style", "done"} =>
        LET blocks == FieldBlocks(htmlList)
        IN  /\ Len(blocks) = Len(answer)
            /\ Len(resParse) = Len(answer)
            /\ \A i \in 1..Len(answer) :
                  /\ resParse[i].arg = answer[i].tag.json
                  /\ resParse[i].field = answer[i].name
                  /\ InputsOf(blocks[i]) # <<>>
                  /\ \A j \in 1..Len(InputsOf(blocks[i])) :
                        NameAttr(InputsOf(blocks[i])[j]) = answer[i].tag.json

\* a directive with an explicit key went through all three artifacts
C2_Witness ==
    /\ pc = "done"
    /\ Len(values) = 1
    /\ values[1].element = S_email
    /\ values[1].key = V_key
    /\ Len(answer) = 1
    /\ answer[1].tag.json = V_key

(***************************************************************************)
(* C3                                                                      *)
(***************************************************************************)
\* C3: required-flag propagation, as claimed.  After the second pass, the
\* input fragment of every field directive, of every kind, carries the
\* required marker if and only if its line begins with "!", and the FormAnswer
\* field and the ParsePost statement are those of the same directive without
\* the flag.
C3_RequiredEveryKind ==
    AfterPass2 =>
        LET blocks == FieldBlocks(htmlList)
            fieldAt == {n \in 1..Len(values) : IsFieldKind(values[n])}
        IN  \A n \in fieldAt :
                LET i == Cardinality({m \in fieldAt : m <= n})
                    ins == InputsOf(blocks[i])
                    plain == Dispatch([values[n] EXCEPT !.required = FALSE])
                IN  /\ \A j \in 1..Len(ins) :
                          HasRequiredMarker(ins[j]) <=> (Head(format[n]) = "!")
                    /\ <<answer[i]>> = plain.answer
                    /\ <<resParse[i]>> = plain.resParse

(***************************************************************************)
(* C4                                                                      *)
(***************************************************************************)
\* a line of one of the two shapes: it holds a "=" and the pattern matches
\* the text before it
LineMatches(line) ==
    /\ Index(line, "=") # -1
    /\ FindStringSubmatch(TrimSpace(SubSeq(line, 1, Index(line, "=")))) # <<>>

\* C4: malformed-line handling, as claimed.  parseFormat never fails, and what
\* it returns is the directives of the lines that match one of the two
\* shapes, in order, the other lines contributing nothing.
C4_MalformedLinesSkipped ==
    /\ ~ParsePanicked
    /\ pc \notin {"parseFormat", "panic"} =>
          LET good == SelectSeq(format, LineMatches)
          IN  /\ Len(values) = Len(good)
              /\ \A i \in 1..Len(good) : values[i] = parseLine(good[i]).v

(***************************************************************************)
(* C5                                                                      *)
(***************************************************************************)
HasSpace(s) == \E n \in 1..Len(s) : IsSpace(s[n])

\* C5: resolved-name validity, as claimed.  For a directive with a non-empty
\* title, formatKeyAndTitle returns a key without whitespace and a non-empty
\* title without whitespace.
C5_ResolvedNamesValid ==
    (kt.called /\ kt.v.title # <<>>) =>
        /\ ~HasSpace(kt.key)
        /\ kt.title # <<>>
        /\ ~HasSpace(kt.title)

(***************************************************************************)
(* C6                                                                      *)
(***************************************************************************)
RECURSIVE CapitaliseWords(_)
\* each word, a maximal run of letters, digits and underscores, with its
\* first character in upper case; everything else as it is
CapitaliseWords(s) ==
    IF s = <<>> THEN <<>>
    ELSE IF ~IsWordChar(Head(s)) THEN <<Head(s)>> \o CapitaliseWords(Tail(s))
    ELSE LET e == MinOf({n \in 1..Len(s) : n = Len(s) \/ ~IsWordChar(s[n + 1])})
         IN  <<ToUpperChar(s[1])>> \o SubSeq(s, 2, e)
             \o CapitaliseWords(SubSeq(s, e + 1, Len(s)))

Without(s, chars) == SelectSeq(s, LAMBDA c : c \notin chars)

\* C6: the derivation rule.  With an empty key the result is the lower-cased
\* title and the title with each word capitalised and its spaces removed; with
\* a key it is the key as given and the key with each word capitalised, the
\* hyphens being word boundaries, and the hyphens removed, whatever the title.
C6_DerivationRule ==
    kt.called =>
        IF kt.v.key = <<>>
        THEN /\ kt.key = [n \in 1..Len(kt.v.title) |-> ToLowerChar(kt.v.title[n])]
             /\ kt.title = Without(CapitaliseWords(kt.v.title), {" "})
        ELSE /\ kt.key = kt.v.key
             /\ kt.title = Without(CapitaliseWords(kt.v.key), {"-"})

\* a hyphenated mixed-case key together with a title of its own
C6_Witness ==
    /\ kt.called
    /\ kt.v.key = <<"a", "-", "B">>
    /\ kt.v.title = <<"B", " ", "a">>
    /\ kt.key = <<"a", "-", "B">>
    /\ kt.title = <<"A", "B">>

(***************************************************************************)
(* C7                                                                      *)
(***************************************************************************)
\* C7: theme fallback, as claimed.  The style data the stylesheet is rendered
\* with never holds an empty colour: a colour no directive sets has a default.
C7_ThemeFallback ==
    pc = "done" =>
        /\ styleData.Background # <<>>
        /\ styleData.TitleColor # <<>>
        /\ styleData.Body # <<>>

(***************************************************************************)
(* C8                                                                      *)
(***************************************************************************)
RECURSIVE runPass2(_)
\* the second loop as a function of the directives
runPass2(vals) ==
    IF vals = <<>> THEN [panic |-> FALSE, html |-> <<>>, answer |-> <<>>, resParse |-> <<>>]
    ELSE LET r == Dispatch(Head(vals))
         IN  IF r.panic THEN r
             ELSE LET rest == runPass2(Tail(vals))
                  IN  [panic |-> rest.panic, html |-> r.html \o rest.html,
                       answer |-> r.answer \o rest.answer,
                       resParse |-> r.resParse \o rest.resParse]

IsMetadataLine(line) == LineMatches(line) /\ IsMetadata(parseLine(line).v)

NotMetadataLine(line) == ~IsMetadataLine(line)

ContentName(v) ==
    CASE v.element = S_formTitle -> "Title"
      [] v.element = S_formDesc -> "Description"
      [] v.element = S_formImage -> "Image"
      [] v.element = S_formPassword -> "Password"
      [] v.element = S_formUser -> "User"

HasContentField(v) ==
    v.element \in {S_formTitle, S_formDesc, S_formImage, S_formPassword, S_formUser}

\* C8: metadata separation.  A step of either loop on a metadata directive
\* leaves the FormAnswer fields and the ParsePost statements as they are, and
\* a step on a field directive leaves the FormContent fields as they are, so
\* that FormContent lists metadata directives only; a text with one form-title
\* line of value T has page title T and one FormContent field Title; and the
\* FormAnswer fields, the ParsePost statements and the field fragments are
\* those of the same text with its metadata lines taken out.
C8_MetadataSeparate ==
    /\ pc \in {"pass1", "pass2", "style", "done"} =>
          LET seen == IF pc = "pass1" THEN SubSeq(values, 1, idx - 1) ELSE values
              meta == SelectSeq(seen, HasContentField)
          IN  contentBits = [i \in 1..Len(meta) |-> ContentName(meta[i])]
    /\ pc \in {"pass2", "style", "done"} =>
          /\ Len(answer) = Len(SelectSeq(Processed, IsFieldKind))
          /\ Len(resParse) = Len(SelectSeq(Processed, IsFieldKind))
    /\ pc = "done" =>
          LET titles == {n \in 1..Len(values) : values[n].element = S_formTitle}
              bare == runPass2(parseFormat(SelectSeq(format, NotMetadataLine)).list)
          IN  /\ Cardinality(titles) = 1 =>
                    /\ \A n \in titles : pageTitle = values[n].value
                    /\ Cardinality({i \in 1..Len(contentBits) : contentBits[i] = "Title"}) = 1
              /\ ~bare.panic
              /\ answer = bare.answer
              /\ resParse = bare.resParse
              /\ FieldBlocks(htmlList) = FieldBlocks(bare.html)

\* a title line between two field lines
C8_Witness ==
    /\ pc = "done"
    /\ Len(values) = 3
    /\ IsFieldKind(values[1]) /\ IsFieldKind(values[3])
    /\ values[2].element = S_formTitle
    /\ pageTitle = V_t
    /\ contentBits = <<"Title">>
    /\ Len(answer) = 2

(***************************************************************************)
(* C9                                                                      *)
(***************************************************************************)
FormTagOnce(html) == Cardinality(Positions(html, T_form)) = 1

FormPos(html) == CHOOSE p \in Positions(html, T_form) : TRUE

ClosedAtEnd(html) ==
    /\ Len(html) >= 3
    /\ html[Len(html) - 1].tmpl = T_submit
    /\ html[Len(html)].tmpl = T_formEnd
    /\ Positions(html, T_submit) = {Len(html) - 1}
    /\ Positions(html, T_formEnd) = {Len(html)}

FieldsInside(html) ==
    \A p \in DivStarts(html) : FormPos(html) < p /\ BlockEnd(html, p) < Len(html) - 1

\* C9 as claimed: the opening form tag is the fragment right before the first
\* field fragment, whatever comes before the first field directive.
C9_FormTagBeforeFirstField ==
    pc = "done" =>
        /\ FormTagOnce(htmlList)
        /\ ClosedAtEnd(htmlList)
        /\ FieldsInside(htmlList)
        /\ DivStarts(htmlList) # {} =>
              FormPos(htmlList) = MinOf(DivStarts(htmlList)) - 1

\* whether a form-paragraph directive comes before the first field directive
ParagraphLeads(vals) ==
    \E n \in 1..Len(vals) :
        /\ vals[n].element = S_formParagraph
        /\ \A m \in 1..(n - 1) : ~IsFieldKind(vals[m])

\* C9, amended: the opening form tag occurs once, right after the fragments of
\* the first pass and before every fragment of the second pass, form-paragraph
\* fragments included; it is the fragment right before the first field fragment
\* exactly when no form-paragraph directive comes before the first field
\* directive.  The submit control and the closing tag occur once, as the last
\* two fragments, and every field fragment lies between the tags.
C9_FormTagBeforeSecondPass ==
    pc = "done" =>
        /\ FormTagOnce(htmlList)
        /\ ClosedAtEnd(htmlList)
        /\ FieldsInside(htmlList)
        /\ LET first == SelectSeq(values, LAMBDA v : MetaHtml(v) # <<>>)
               second == SelectSeq(values, LAMBDA v : IsFieldKind(v) \/ v.element = S_formParagraph)
           IN  /\ FormPos(htmlList) = Len(first) + 1
               /\ \A p \in 1..Len(first) : htmlList[p] = MetaHtml(first[p])[1]
               /\ second # <<>> /\ second[1].element = S_formParagraph =>
                     htmlList[FormPos(htmlList) + 1] = Sprintf(T_p, <<second[1].value>>)
        /\ DivStarts(htmlList) # {} =>
              (FormPos(htmlList) = MinOf(DivStarts(htmlList)) - 1
                  <=> ~ParagraphLeads(values))

\* a paragraph, then a field: the paragraph sits between the tag and the field
C9_Witness ==
    /\ pc = "done"
    /\ Len(values) >= 2
    /\ values[1].element = S_formParagraph
    /\ IsFieldKind(values[2])
    /\ htmlList[1].tmpl = T_form
    /\ htmlList[2].tmpl = T_p
    /\ htmlList[3].tmpl = T_div

(***************************************************************************)
(* C10                                                                     *)
(***************************************************************************)
\* C10: unvalidated numeric attributes, as claimed.  The second pass never
\* fails, whatever the value of a number or range directive, and each such
\* directive gone through has its FormAnswer field and its ParsePost statement.
C10_NumericNeverFails ==
    /\ ~(pc = "panic" /\ idx > 0)
    /\ pc \in {"pass2", "style", "done"} =>
          LET numeric == SelectSeq(Processed, LAMBDA v : v.element \in {S_number, S_range})
          IN  Len(numeric) <= Len(answer) /\ Len(numeric) <= Len(resParse)

====
